---- MODULE Spec2Model ----
(***************************************************************************)
(* A model of the discounts module: the Coupon and Promotion entities      *)
(* (models.py), the coupon CRUD handlers and POS endpoints (views.py) and   *)
(* the DiscountService orchestrator (services/discount_service.py).        *)
(*                                                                         *)
(* Money is an integer number of 1/10000 currency units (Decimal            *)
(* arithmetic is exact, so a percentage of a 2-decimal amount carries more  *)
(* than two decimals).  Optional (nullable) fields are sequences: <<>> is   *)
(* None and <<v>> is the value v.  Time is an integer tick.                 *)
(***************************************************************************)
EXTENDS Integers, Sequences, FiniteSets, Bags, TLC

VARIABLES
    coupons,     \* table discounts_coupon: id -> row, or NoRow
    promotions,  \* table discounts_promotion: id -> row, or NoRow
    usages,      \* table discounts_usage: the rows in insertion order
    now,         \* timezone.now()
    inflight,    \* bag of the requests that are between two of their steps
    result       \* the last response a handler or service call returned

vars == <<coupons, promotions, usages, now, inflight, result>>

(***************************************************************************)
(* Bounds of the model.                                                    *)
(***************************************************************************)
MaxUses == 2        \* usage recordings started per run of the ledger
NumRequests == 2    \* requests that may be in flight at the same time

CouponIds == {"c1", "c2"}
MaxPromos == 2
PromoIds == 1..MaxPromos
Customers == {"X", "Y"}
NoCustomer == "none"

None == <<>>
Some(v) == <<v>>
NoRow == [absent |-> TRUE]
NoResult == [op |-> "none"]

\* Python truthiness of an Optional number: None and 0 are both falsy.
Truthy(x) == x /= None /\ x[1] /= 0

Money(n) == n * 10000

Min(a, b) == IF a <= b THEN a ELSE b
Max(a, b) == IF a >= b THEN a ELSE b

(***************************************************************************)
(* Coupon (models.py)                                                      *)
(***************************************************************************)

Coupon_status_TimeFirst(c, t) ==
    IF ~c.is_active THEN "inactive"
    ELSE IF c.valid_from > t THEN "scheduled"
    ELSE IF c.valid_until /= None /\ c.valid_until[1] < t THEN "expired"
    ELSE IF Truthy(c.usage_limit) /\ c.usage_count >= c.usage_limit[1] THEN "exhausted"
    ELSE "active"

Coupon_status_FromExclusive(c, t) ==
    IF ~c.is_active THEN "inactive"
    ELSE IF Truthy(c.usage_limit) /\ c.usage_count >= c.usage_limit[1] THEN "exhausted"
    ELSE IF c.valid_from >= t THEN "scheduled"
    ELSE IF c.valid_until /= None /\ c.valid_until[1] < t THEN "expired"
    ELSE "active"

\* Coupon.status
Coupon_status(c, t) ==
    IF ~c.is_active THEN "inactive"
    ELSE IF Truthy(c.usage_limit) /\ c.usage_count >= c.usage_limit[1] THEN "exhausted"
    ELSE IF c.valid_from > t THEN "scheduled"
    ELSE IF c.valid_until /= None /\ c.valid_until[1] < t THEN "expired"
    ELSE "active"

\* Coupon.is_valid
Coupon_is_valid(c, t) == Coupon_status(c, t) = "active"

\* DiscountUsage.objects.filter(coupon=self, customer=customer).count()
CustomerUses(rows, cid, customer) ==
    Cardinality({i \in 1..Len(rows) :
                    rows[i].coupon = cid /\ rows[i].customer = customer})

\* Coupon.can_use: (ok, reason)
Coupon_can_use(c, cid, customer, order_total, t, rows) ==
    IF ~Coupon_is_valid(c, t)
    THEN [ok |-> FALSE, reason |-> "Coupon is " \o Coupon_status(c, t)]
    ELSE IF c.min_purchase /= 0 /\ order_total < c.min_purchase
    THEN [ok |-> FALSE, reason |-> "Minimum purchase required"]
    ELSE IF customer /= NoCustomer /\ c.usage_per_customer /= 0
            /\ CustomerUses(rows, cid, customer) >= c.usage_per_customer
    THEN [ok |-> FALSE, reason |-> "Usage limit per customer reached"]
    ELSE [ok |-> TRUE, reason |-> "Coupon is valid"]

\* order_total * (discount_value / 100), exact on the amounts of the model
PercentOf(order_total, discount_value) == (order_total * discount_value) \div 100

Coupon_calculate_discount_FixedUnclamped(c, order_total) ==
    IF order_total < c.min_purchase THEN 0
    ELSE IF c.discount_type = "percentage"
    THEN LET discount == PercentOf(order_total, c.discount_value)
         IN  IF Truthy(c.max_discount) THEN Min(discount, c.max_discount[1])
             ELSE discount
    ELSE IF c.discount_type = "fixed" THEN c.discount_value
    ELSE 0

\* Coupon.calculate_discount
Coupon_calculate_discount(c, order_total) ==
    IF order_total < c.min_purchase THEN 0
    ELSE IF c.discount_type = "percentage"
    THEN LET discount == PercentOf(order_total, c.discount_value)
         IN  IF Truthy(c.max_discount) THEN Min(discount, c.max_discount[1])
             ELSE discount
    ELSE IF c.discount_type = "fixed" THEN Min(c.discount_value, order_total)
    ELSE 0

\* Coupon.increment_usage, on the instance a request holds in memory:
\* the value that save(update_fields=['usage_count', ...]) writes.
Coupon_increment_usage(loaded_usage_count) == loaded_usage_count + 1

(***************************************************************************)
(* Coupon CRUD handlers (views.py)                                         *)
(***************************************************************************)

\* Coupon(hub_id=hub): a fresh instance with the field defaults of models.py;
\* conditions is the set of the DiscountCondition rows that name the coupon
NewCoupon(t) ==
    [code |-> "", discount_type |-> "percentage", discount_value |-> 0,
     min_purchase |-> 0, max_discount |-> None, usage_limit |-> None,
     usage_per_customer |-> 1, usage_count |-> 0, valid_from |-> t,
     valid_until |-> None, is_active |-> TRUE, is_deleted |-> FALSE,
     conditions |-> {}]

\* _save_coupon_from_post: the instance after the POST data is copied onto
\* it; coupon.save() then writes every field of it.  code is upper-cased by
\* the handler, so the codes of the posts are upper-case already.
SaveCouponFromPost(coupon, post) ==
    [coupon EXCEPT
        !.code = post.code,
        !.discount_type = post.discount_type,
        !.discount_value = post.discount_value,
        !.min_purchase = post.min_purchase,
        !.max_discount = post.max_discount,
        !.usage_limit = post.usage_limit,
        !.usage_per_customer = post.usage_per_customer,
        !.valid_from = IF post.valid_from /= None THEN post.valid_from[1] ELSE @,
        !.valid_until = post.valid_until,
        !.is_active = post.is_active]

\* The POST bodies the ledger specification submits to coupon_create/coupon_edit.
LedgerPosts ==
    { [code |-> "SAVE10", discount_type |-> "percentage", discount_value |-> 10,
       min_purchase |-> 0, max_discount |-> None, usage_limit |-> ul,
       usage_per_customer |-> 1, valid_from |-> Some(0), valid_until |-> None,
       is_active |-> a] : ul \in {None, Some(1), Some(2)}, a \in BOOLEAN }

\* The coupon the ledger specification works on.
LedgerCoupons == {"c1"}

Live(c) == coupons[c] /= NoRow /\ ~coupons[c].is_deleted

Request(op, pc, cid, row) ==
    [op |-> op, pc |-> pc, cid |-> cid,
     usage_count |-> row.usage_count, valid_from |-> row.valid_from]

Start(rq) == inflight (+) SetToBag({rq})
Finish(rq) == inflight (-) SetToBag({rq})
Step(rq, next) == (inflight (-) SetToBag({rq})) (+) SetToBag({next})

\* coupon_create (POST): one INSERT of a new row
coupon_create(c, post) ==
    /\ coupons[c] = NoRow
    /\ coupons' = [coupons EXCEPT ![c] = SaveCouponFromPost(NewCoupon(now), post)]
    /\ UNCHANGED <<promotions, usages, now, inflight, result>>

\* coupon_edit (POST), first step: get_object_or_404 reads the row into memory
coupon_edit_load(c) ==
    /\ Live(c)
    /\ BagCardinality(inflight) < NumRequests
    /\ inflight' = Start(Request("edit", "loaded", c, coupons[c]))
    /\ UNCHANGED <<coupons, promotions, usages, now, result>>

\* coupon_edit (POST), second step: _save_coupon_from_post ends in
\* coupon.save(), an UPDATE of every column from the instance in memory,
\* usage_count and is_deleted as they were read included.
coupon_edit_save(rq, post) ==
    /\ rq.op = "edit"
    /\ coupons' = [coupons EXCEPT ![rq.cid] =
          SaveCouponFromPost([@ EXCEPT !.usage_count = rq.usage_count,
                                       !.valid_from = rq.valid_from,
                                       !.is_deleted = FALSE], post)]
    /\ inflight' = Finish(rq)
    /\ UNCHANGED <<promotions, usages, now, result>>

\* coupon_delete: soft delete, save(update_fields=['is_deleted', ...])
coupon_delete(c) ==
    /\ Live(c)
    /\ coupons' = [coupons EXCEPT ![c].is_deleted = TRUE]
    /\ UNCHANGED <<promotions, usages, now, inflight, result>>

\* coupon_toggle: save(update_fields=['is_active', ...])
coupon_toggle(c) ==
    /\ Live(c)
    /\ coupons' = [coupons EXCEPT ![c].is_active = ~@]
    /\ UNCHANGED <<promotions, usages, now, inflight, result>>

(***************************************************************************)
(* Usage ledger: api_apply_discount (views.py), source = coupon            *)
(***************************************************************************)

\* The recordings of a run: those that inserted their row and those in flight.
AppliesStarted ==
    Len(usages) + Cardinality({rq \in BagToSet(inflight) : rq.op = "apply"})

\* get_object_or_404(Coupon, id=discount_id, is_deleted=False)
api_apply_discount_load(c) ==
    /\ Live(c)
    /\ BagCardinality(inflight) < NumRequests
    /\ coupons[c].usage_count < MaxUses
    /\ AppliesStarted < MaxUses
    /\ inflight' = Start(Request("apply", "loaded", c, coupons[c]))
    /\ UNCHANGED <<coupons, promotions, usages, now, result>>

\* coupon.increment_usage(): usage_count += 1 on the instance, then
\* save(update_fields=['usage_count', 'updated_at']) writes that value.
api_apply_discount_increment(rq) ==
    /\ rq.op = "apply" /\ rq.pc = "loaded"
    /\ coupons' = [coupons EXCEPT
          ![rq.cid].usage_count = Coupon_increment_usage(rq.usage_count)]
    /\ inflight' = Step(rq, [rq EXCEPT !.pc = "saved",
                                !.usage_count = Coupon_increment_usage(@)])
    /\ UNCHANGED <<promotions, usages, now, result>>

\* The row DiscountUsage.objects.create(**kwargs) inserts: kwargs holds
\* hub_id, the amounts, sale_id and the coupon; never a customer.
UsageRow(cid) == [coupon |-> cid, customer |-> NoCustomer]

\* DiscountUsage.objects.create(**kwargs) succeeds; JsonResponse success.
\* sale_customer is the customer of the sale the request is about: the
\* handler takes no customer parameter, so the row does not hold it.
api_apply_discount_create(rq, sale_customer) ==
    /\ rq.op = "apply" /\ rq.pc = "saved"
    /\ usages' = Append(usages, UsageRow(rq.cid))
    /\ inflight' = Finish(rq)
    /\ result' = [op |-> "apply", outcome |-> "success", cid |-> rq.cid,
                  sale_customer |-> sale_customer]
    /\ UNCHANGED <<coupons, promotions, now>>

\* DiscountUsage.objects.create(**kwargs) raises (sale_id is no UUID, or
\* names no sale): the request ends in a server error.  The handler opens
\* no transaction, so the UPDATE of increment_usage stays committed.
api_apply_discount_create_fails(rq) ==
    /\ rq.op = "apply" /\ rq.pc = "saved"
    /\ inflight' = Finish(rq)
    /\ result' = [op |-> "apply", outcome |-> "error", cid |-> rq.cid,
                  sale_customer |-> NoCustomer]
    /\ UNCHANGED <<coupons, promotions, usages, now>>

(***************************************************************************)
(* The ledger specification: one coupon, its CRUD and its usage recordings, *)
(* with the steps of concurrent requests interleaved.                      *)
(***************************************************************************)
Init ==
    /\ coupons = [c \in CouponIds |-> NoRow]
    /\ promotions = [p \in PromoIds |-> NoRow]
    /\ usages = <<>>
    /\ now = 1
    /\ inflight = EmptyBag
    /\ result = NoResult

Next ==
    \/ \E c \in LedgerCoupons, post \in LedgerPosts : coupon_create(c, post)
    \/ \E c \in LedgerCoupons : coupon_edit_load(c)
    \/ \E rq \in BagToSet(inflight), post \in LedgerPosts : coupon_edit_save(rq, post)
    \/ \E c \in LedgerCoupons : coupon_delete(c)
    \/ \E c \in LedgerCoupons : coupon_toggle(c)
    \/ \E c \in LedgerCoupons : api_apply_discount_load(c)
    \/ \E rq \in BagToSet(inflight) : api_apply_discount_increment(rq)
    \/ \E rq \in BagToSet(inflight), x \in Customers \cup {NoCustomer} :
          api_apply_discount_create(rq, x)
    \/ \E rq \in BagToSet(inflight) : api_apply_discount_create_fails(rq)

Spec == Init /\ [][Next]_vars

(***************************************************************************)
(* The coupon administration specification: coupons are created, edited,   *)
(* toggled and deleted in both slots of the table.                         *)
(***************************************************************************)

\* The POST bodies submitted to coupon_create / coupon_edit: two codes
CrudPosts ==
    { [code |-> code, discount_type |-> "percentage", discount_value |-> 10,
       min_purchase |-> 0, max_discount |-> None, usage_limit |-> None,
       usage_per_customer |-> 1, valid_from |-> Some(0), valid_until |-> None,
       is_active |-> TRUE] : code \in {"SAVE10", "BIG"} }

CrudNext ==
    \/ \E c \in CouponIds, post \in CrudPosts : coupon_create(c, post)
    \/ \E c \in CouponIds : coupon_edit_load(c)
    \/ \E rq \in BagToSet(inflight), post \in CrudPosts : coupon_edit_save(rq, post)
    \/ \E c \in CouponIds : coupon_delete(c)
    \/ \E c \in CouponIds : coupon_toggle(c)

CrudSpec == Init /\ [][CrudNext]_vars

(***************************************************************************)
(* Promotion (models.py).  A tick of time is one hour; tick 0 is a Monday, *)
(* 00:00.                                                                  *)
(***************************************************************************)

\* now.weekday(): 0 = Monday .. 6 = Sunday
Weekday(t) == (t \div 24) % 7

\* now.time()
TimeOfDay(t) == t % 24

\* Promotion.status
Promotion_status(p, t) ==
    IF ~p.is_active THEN "inactive"
    ELSE IF p.valid_from > t THEN "scheduled"
    ELSE IF p.valid_until < t THEN "expired"
    ELSE "active"

Promotion_is_valid_AnyDay(p, t) ==
    IF Promotion_status(p, t) /= "active" THEN FALSE
    ELSE IF p.start_time /= None /\ TimeOfDay(t) < p.start_time[1] THEN FALSE
    ELSE IF p.end_time /= None /\ TimeOfDay(t) > p.end_time[1] THEN FALSE
    ELSE TRUE

\* Promotion.is_valid.  days_of_week is the set of the days the
\* comma-separated field lists; start_time and end_time are optional hours
\* (time(0, 0) is falsy in no supported Python, so a set bound always counts).
Promotion_is_valid(p, t) ==
    IF Promotion_status(p, t) /= "active" THEN FALSE
    ELSE IF p.days_of_week /= {} /\ Weekday(t) \notin p.days_of_week THEN FALSE
    ELSE IF p.start_time /= None /\ TimeOfDay(t) < p.start_time[1] THEN FALSE
    ELSE IF p.end_time /= None /\ TimeOfDay(t) > p.end_time[1] THEN FALSE
    ELSE TRUE

Promotion_calculate_discount_NoMinimum(p, order_total) ==
    IF p.discount_type = "percentage"
    THEN LET discount == PercentOf(order_total, p.discount_value)
         IN  IF Truthy(p.max_discount) THEN Min(discount, p.max_discount[1])
             ELSE discount
    ELSE IF p.discount_type = "fixed" THEN Min(p.discount_value, order_total)
    ELSE 0

\* Promotion.calculate_discount
Promotion_calculate_discount(p, order_total) ==
    IF Truthy(p.min_purchase) /\ order_total < p.min_purchase[1] THEN 0
    ELSE IF p.discount_type = "percentage"
    THEN LET discount == PercentOf(order_total, p.discount_value)
         IN  IF Truthy(p.max_discount) THEN Min(discount, p.max_discount[1])
             ELSE discount
    ELSE IF p.discount_type = "fixed" THEN Min(p.discount_value, order_total)
    ELSE 0

(***************************************************************************)
(* The calculator specification: one stored coupon and one stored          *)
(* promotion, drawn from every combination of discount type, value, cap    *)
(* and minimum purchase; calculate_discount is applied to order totals.    *)
(***************************************************************************)
MaxTotalSteps == 2

\* Order totals: 0, 50.00, 100.00, ...
Totals == {Money(50 * k) : k \in 0..MaxTotalSteps}

\* discount_type with a discount_value > 0 of that type
Discounts ==
    {[type |-> "percentage", value |-> v] : v \in {10, 50, 150}}
    \cup {[type |-> "fixed", value |-> Money(v)] : v \in {5, 500}}
    \cup {[type |-> "buy_x_get_y", value |-> 10]}

Caps == {None, Some(0), Some(Money(10))}

CalcCoupon(d, cap, minp) ==
    [NewCoupon(0) EXCEPT !.code = "TEST10", !.discount_type = d.type,
                         !.discount_value = d.value, !.max_discount = cap,
                         !.min_purchase = minp]

NewPromotion ==
    [discount_type |-> "percentage", discount_value |-> 0, scope |-> "order",
     min_purchase |-> None, max_discount |-> None, valid_from |-> 0,
     valid_until |-> 0, days_of_week |-> {}, start_time |-> None,
     end_time |-> None, priority |-> 0, stackable |-> FALSE,
     is_active |-> TRUE, is_deleted |-> FALSE, products |-> {}, categories |-> {},
     conditions |-> {}]

CalcPromotion(d, cap, minp) ==
    [NewPromotion EXCEPT !.discount_type = d.type, !.discount_value = d.value,
                         !.max_discount = cap, !.min_purchase = minp,
                         !.valid_until = 1000]

CalcInit ==
    /\ \E d \in Discounts, cap \in Caps, minp \in {0, Money(50)} :
          coupons = [c \in CouponIds |->
                        IF c = "c1" THEN CalcCoupon(d, cap, minp) ELSE NoRow]
    /\ \E d \in Discounts, cap \in Caps, minp \in {None, Some(0), Some(Money(50))} :
          promotions = [p \in PromoIds |->
                        IF p = 1 THEN CalcPromotion(d, cap, minp) ELSE NoRow]
    /\ usages = <<>>
    /\ now = 34
    /\ inflight = EmptyBag
    /\ result = NoResult

\* coupon.calculate_discount(order_total)
CouponCalculate(c, order_total) ==
    /\ coupons[c] /= NoRow
    /\ result' = [op |-> "Coupon.calculate_discount", id |-> c,
                  order_total |-> order_total,
                  discount |-> Coupon_calculate_discount(coupons[c], order_total)]
    /\ UNCHANGED <<coupons, promotions, usages, now, inflight>>

\* promo.calculate_discount(order_total)
PromotionCalculate(p, order_total) ==
    /\ promotions[p] /= NoRow
    /\ result' = [op |-> "Promotion.calculate_discount", id |-> p,
                  order_total |-> order_total,
                  discount |-> Promotion_calculate_discount(promotions[p], order_total)]
    /\ UNCHANGED <<coupons, promotions, usages, now, inflight>>

CalcNext ==
    \/ \E c \in CouponIds, t \in Totals : CouponCalculate(c, t)
    \/ \E p \in PromoIds, t \in Totals : PromotionCalculate(p, t)

CalcSpec == CalcInit /\ [][CalcNext]_vars

(***************************************************************************)
(* DiscountService (services/discount_service.py).  The service reads the  *)
(* tables, so its operators read coupons, promotions, usages and now.  It  *)
(* names the minimum purchase of a promotion minimum_purchase and its      *)
(* scope rows products and categories; the scopes are those of             *)
(* DiscountScope.                                                          *)
(***************************************************************************)

\* code.strip(), on the codes the model enters
Strip(code) ==
    CASE code = " TEST10 " -> "TEST10"
      [] code = " test10 " -> "test10"
      [] OTHER -> code

\* str.upper(), on the codes the model enters
Upper(code) ==
    CASE code \in {"test10", "Test10"} -> "TEST10"
      [] code = " test10 " -> " TEST10 "
      [] code = "big" -> "BIG"
      [] code = "nope" -> "NOPE"
      [] OTHER -> code

Fold_Exact(code) == code

\* the case folding of a code__iexact lookup, on the codes of the model
Fold(code) == Upper(code)

\* Coupon.objects.get(code__iexact=code.strip()): the rows that match
CouponsByCode(code) ==
    {c \in CouponIds : coupons[c] /= NoRow /\ Fold(coupons[c].code) = Fold(Strip(code))}

Raised(exception) ==
    [raised |-> exception, is_valid |-> FALSE, message |-> "", coupon |-> "none",
     discount_amount |-> 0]

NotFound_Uncaught == Raised("DoesNotExist")

\* validate_coupon, except self.Coupon.DoesNotExist
NotFound == [Raised("") EXCEPT !.message = "Invalid coupon code"]

Ineligible_Generic(reason) == [Raised("") EXCEPT !.message = "Invalid coupon code"]

\* validate_coupon, if not can_use: return False, reason, None
Ineligible(reason) == [Raised("") EXCEPT !.message = reason]

\* DiscountService.validate_coupon: (is_valid, message, coupon), or the
\* exception Coupon.objects.get raises when several rows match.
validate_coupon(code, order_total, customer_id) ==
    LET found == CouponsByCode(code)
    IN  IF found = {} THEN NotFound
        ELSE IF Cardinality(found) > 1
        THEN Raised("MultipleObjectsReturned")
        ELSE LET c == CHOOSE x \in found : TRUE
                 can == Coupon_can_use(coupons[c], c, customer_id, order_total,
                                       now, usages)
             IN  IF ~can.ok THEN Ineligible(can.reason)
                 ELSE [Raised("") EXCEPT !.is_valid = TRUE,
                                         !.message = "Coupon is valid",
                                         !.coupon = c]

\* DiscountService.apply_coupon: (discount_amount, message, coupon)
apply_coupon(code, order_total, customer_id) ==
    LET v == validate_coupon(code, order_total, customer_id)
    IN  IF v.raised /= "" \/ ~v.is_valid
        THEN [v EXCEPT !.coupon = "none", !.discount_amount = 0]
        ELSE [v EXCEPT !.message = "Coupon applied",
                       !.discount_amount =
                           Coupon_calculate_discount(coupons[v.coupon], order_total)]

\* the coupons in the order of Meta.ordering = ['-created_at']: the row of
\* slot c2 is the later one
CouponsNewestFirst == <<"c2", "c1">>

\* api_validate_coupon (views.py): the JSON answered
api_validate_coupon(posted_code, subtotal) ==
    LET code == Upper(Strip(posted_code))
        found == SelectSeq(CouponsNewestFirst,
                    LAMBDA c : /\ coupons[c] /= NoRow
                               /\ Fold(coupons[c].code) = Fold(code)
                               /\ ~coupons[c].is_deleted)
    IN  IF code = ""
        THEN [valid |-> FALSE, message |-> "Please enter a coupon code"]
        ELSE IF found = <<>>
        THEN [valid |-> FALSE, message |-> "Invalid coupon code"]
        ELSE LET c == Head(found)
                 can == Coupon_can_use(coupons[c], c, NoCustomer, subtotal, now, usages)
             IN  IF ~can.ok THEN [valid |-> FALSE, message |-> can.reason]
                 ELSE [valid |-> TRUE, coupon_id |-> c,
                       discount_type |-> coupons[c].discount_type,
                       discount_value |-> coupons[c].discount_value,
                       discount_amount |->
                           Coupon_calculate_discount(coupons[c], subtotal)]

\* The rows get_active_promotions selects
ActivePromotions ==
    {p \in PromoIds : /\ promotions[p] /= NoRow
                      /\ promotions[p].is_active
                      /\ promotions[p].valid_from <= now
                      /\ promotions[p].valid_until >= now}

get_active_promotions_Unordered ==
    {order \in [1..Cardinality(ActivePromotions) -> ActivePromotions] :
        \A i, j \in DOMAIN order : i /= j => order[i] /= order[j]}

\* DiscountService.get_active_promotions: the lists order_by('-priority')
\* may return; rows of equal priority come in an order the database picks.
get_active_promotions ==
    {order \in [1..Cardinality(ActivePromotions) -> ActivePromotions] :
        /\ \A i, j \in DOMAIN order : i /= j => order[i] /= order[j]
        /\ \A i, j \in DOMAIN order :
              i < j => promotions[order[i]].priority >= promotions[order[j]].priority}

\* DiscountScope, which the service imports from discounts.models; models.py
\* declares the first three values in SCOPE_CHOICES and no such class, so the
\* members are those get_applicable_promotions names, with the values of the
\* specification (order | products | categories | minimum).
DiscountScope ==
    [ENTIRE_ORDER |-> "order", SPECIFIC_PRODUCTS |-> "products",
     SPECIFIC_CATEGORIES |-> "categories", MINIMUM_PURCHASE |-> "minimum"]

\* the scope test of get_applicable_promotions
ScopeMatches(promo, order_total, product_ids, category_ids) ==
    IF promo.scope = DiscountScope.ENTIRE_ORDER THEN TRUE
    ELSE IF promo.scope = DiscountScope.SPECIFIC_PRODUCTS /\ product_ids /= {}
    THEN promo.products \cap product_ids /= {}
    ELSE IF promo.scope = DiscountScope.SPECIFIC_CATEGORIES /\ category_ids /= {}
    THEN promo.categories \cap category_ids /= {}
    ELSE IF promo.scope = DiscountScope.MINIMUM_PURCHASE
    THEN ~Truthy(promo.min_purchase) \/ order_total >= promo.min_purchase[1]
    ELSE FALSE

\* DiscountService.get_applicable_promotions, on the list active_promotions
get_applicable_promotions(active_promotions, order_total, product_ids, category_ids) ==
    LET Applicable(p) ==
            /\ Promotion_is_valid(promotions[p], now)
            /\ ~(Truthy(promotions[p].min_purchase)
                   /\ order_total < promotions[p].min_purchase[1])
            /\ ScopeMatches(promotions[p], order_total, product_ids, category_ids)
    IN  SelectSeq(active_promotions, Applicable)

AppliedDiscount(source, id, row, discount_amount, original_total) ==
    [source |-> source, source_id |-> id, discount_type |-> row.discount_type,
     discount_value |-> row.discount_value, discount_amount |-> discount_amount,
     original_total |-> original_total]

Apply_KeepsTotal(acc, applied) ==
    [working_total |-> acc.working_total,
     total_discount |-> acc.total_discount + applied.discount_amount,
     applied_discounts |-> Append(acc.applied_discounts, applied)]

\* working_total, total_discount and applied_discounts after one more discount
Apply(acc, applied) ==
    [working_total |-> acc.working_total - applied.discount_amount,
     total_discount |-> acc.total_discount + applied.discount_amount,
     applied_discounts |-> Append(acc.applied_discounts, applied)]

RECURSIVE ApplyPromotions_NoBreak(_, _, _)
ApplyPromotions_NoBreak(promos, allow_stacking, acc) ==
    IF promos = <<>> THEN acc
    ELSE LET promo == promotions[Head(promos)]
             discount_amount == Promotion_calculate_discount(promo, acc.working_total)
         IN  IF ~allow_stacking /\ acc.applied_discounts /= <<>> /\ ~promo.stackable
             THEN ApplyPromotions_NoBreak(Tail(promos), allow_stacking, acc)
             ELSE IF discount_amount > 0
             THEN ApplyPromotions_NoBreak(Tail(promos), allow_stacking,
                      Apply(acc, AppliedDiscount("promotion", Head(promos),
                                       promo, discount_amount, acc.working_total)))
             ELSE ApplyPromotions_NoBreak(Tail(promos), allow_stacking, acc)

\* the loop "for promo in promotions" of calculate_order_discounts
RECURSIVE ApplyPromotions(_, _, _)
ApplyPromotions(promos, allow_stacking, acc) ==
    IF promos = <<>> THEN acc
    ELSE LET promo == promotions[Head(promos)]
             discount_amount == Promotion_calculate_discount(promo, acc.working_total)
         IN  IF ~allow_stacking /\ acc.applied_discounts /= <<>> /\ ~promo.stackable
             THEN ApplyPromotions(Tail(promos), allow_stacking, acc)
             ELSE IF discount_amount > 0
             THEN LET next == Apply(acc, AppliedDiscount("promotion", Head(promos),
                                       promo, discount_amount, acc.working_total))
                  IN  IF ~promo.stackable THEN next
                      ELSE ApplyPromotions(Tail(promos), allow_stacking, next)
             ELSE ApplyPromotions(Tail(promos), allow_stacking, acc)

DiscountResult_Unclamped(order_total, acc, errors) ==
    [raised |-> "", original_total |-> order_total,
     discounted_total |-> acc.working_total,
     total_discount |-> acc.total_discount,
     applied_discounts |-> acc.applied_discounts, errors |-> errors]

\* DiscountResult(..., discounted_total=max(Decimal('0'), working_total), ...)
DiscountResult(order_total, acc, errors) ==
    [raised |-> "", original_total |-> order_total,
     discounted_total |-> Max(0, acc.working_total),
     total_discount |-> acc.total_discount,
     applied_discounts |-> acc.applied_discounts, errors |-> errors]

ReturnsAfterCoupon_Never(coupon_used, allow_stacking) == FALSE

\* calculate_order_discounts: "if not allow_stacking: return" once the coupon
\* has been applied
ReturnsAfterCoupon(coupon_used, allow_stacking) == coupon_used /\ ~allow_stacking

\* DiscountService.calculate_order_discounts; a.coupon_code = "" stands for
\* no code (None and "" are both falsy), active_promotions is the list
\* get_active_promotions returned.
calculate_order_discounts(a, active_promotions) ==
    LET start == [working_total |-> a.order_total, total_discount |-> 0,
                  applied_discounts |-> <<>>]
        applied == apply_coupon(a.coupon_code, a.order_total, a.customer_id)
        coupon_used == a.coupon_code /= "" /\ applied.coupon /= "none"
                          /\ applied.discount_amount > 0
        acc == IF coupon_used
               THEN Apply(start, AppliedDiscount("coupon", applied.coupon,
                              coupons[applied.coupon], applied.discount_amount,
                              a.order_total))
               ELSE start
        errors == IF a.coupon_code /= "" /\ applied.coupon = "none"
                  THEN <<applied.message>> ELSE <<>>
    IN  IF a.coupon_code /= "" /\ applied.raised /= ""
        THEN [raised |-> applied.raised, original_total |-> a.order_total,
              discounted_total |-> 0, total_discount |-> 0,
              applied_discounts |-> <<>>, errors |-> <<>>]
        ELSE IF ReturnsAfterCoupon(coupon_used, a.allow_stacking)
        THEN DiscountResult(a.order_total, acc, errors)
        ELSE DiscountResult(a.order_total,
                ApplyPromotions(
                    get_applicable_promotions(active_promotions, acc.working_total,
                                              a.product_ids, a.category_ids),
                    a.allow_stacking, acc),
                errors)

(***************************************************************************)
(* The orchestrator specification: stored coupons, promotions and usage    *)
(* rows are drawn from the rows below (now is tick 34: a Tuesday, 10:00);  *)
(* calculate_order_discounts is called on them.                            *)
(***************************************************************************)
Test10 ==
    [NewCoupon(0) EXCEPT !.code = "TEST10", !.discount_value = 10]

Big ==
    [NewCoupon(0) EXCEPT !.code = "BIG", !.discount_type = "fixed",
                         !.discount_value = Money(500)]

\* The coupon rows of slot c1
OrchCoupons ==
    { Test10,
      Big,
      [Test10 EXCEPT !.is_active = FALSE],
      [Test10 EXCEPT !.valid_until = Some(20)],
      [Test10 EXCEPT !.discount_value = 150],
      [Test10 EXCEPT !.discount_value = 50, !.min_purchase = Money(100),
                     !.max_discount = Some(Money(10))],
      [Big EXCEPT !.discount_type = "buy_x_get_y", !.discount_value = 10],
      [Big EXCEPT !.usage_limit = Some(1), !.usage_count = 1] }

\* The coupon rows of slot c2: a second row of code TEST10, or one of code BIG
OtherCoupons == {[Test10 EXCEPT !.discount_value = 50], Big}

Promo(type, value, priority, stackable) ==
    [NewPromotion EXCEPT !.discount_type = type, !.discount_value = value,
                         !.priority = priority, !.stackable = stackable,
                         !.valid_until = 1000]

\* The promotion rows
OrchPromotions ==
    << Promo("percentage", 20, 10, FALSE),
       Promo("percentage", 5, 5, TRUE),
       [Promo("fixed", Money(5), 10, TRUE) EXCEPT !.scope = "products",
                                                  !.products = {"prod1"}],
       [Promo("percentage", 50, 20, FALSE) EXCEPT !.days_of_week = {5, 6}],
       [Promo("percentage", 10, 5, FALSE) EXCEPT !.scope = "minimum",
                                                 !.min_purchase = Some(Money(75))],
       [Promo("percentage", 10, 30, TRUE) EXCEPT !.is_active = FALSE] >>

\* The coupon codes entered ("" : none)
CodesEntered == {"", "TEST10", "test10", "BIG", "NOPE"}

OrchInit ==
    /\ \E row1 \in OrchCoupons \cup {NoRow}, row2 \in OtherCoupons \cup {NoRow} :
          /\ coupons = [c \in CouponIds |-> IF c = "c1" THEN row1 ELSE row2]
          /\ usages = IF row1 = NoRow THEN <<>>
                      ELSE <<[coupon |-> "c1", customer |-> "X"]>>
    /\ \E form \in [PromoIds -> 0..Len(OrchPromotions)] :
          /\ \A i, j \in PromoIds : i < j => form[i] >= form[j]
          /\ promotions = [p \in PromoIds |->
                IF form[p] = 0 THEN NoRow ELSE OrchPromotions[form[p]]]
    /\ now = 34
    /\ inflight = EmptyBag
    /\ result = NoResult

\* a calculation that also counts a usage of the coupon whose code was entered
CalculateOrderDiscounts_Recording(a, active_promotions) ==
    /\ result = NoResult
    /\ result' = calculate_order_discounts(a, active_promotions)
                 @@ [op |-> "calculate_order_discounts", args |-> a,
                     active_promotions |-> active_promotions]
    /\ coupons' = [c \in CouponIds |->
          IF Live(c) /\ Fold(coupons[c].code) = Fold(a.coupon_code)
          THEN [coupons[c] EXCEPT !.usage_count = Coupon_increment_usage(@)]
          ELSE coupons[c]]
    /\ UNCHANGED <<promotions, usages, now, inflight>>

\* a call of DiscountService.calculate_order_discounts (one per behaviour:
\* the call changes no table, so a second call starts from the same tables)
CalculateOrderDiscounts(a, active_promotions) ==
    /\ result = NoResult
    /\ result' = calculate_order_discounts(a, active_promotions)
                 @@ [op |-> "calculate_order_discounts", args |-> a,
                     active_promotions |-> active_promotions]
    /\ UNCHANGED <<coupons, promotions, usages, now, inflight>>

OrderArgs ==
    [order_total : Totals, coupon_code : CodesEntered,
     customer_id : {NoCustomer, "X"}, product_ids : {{}, {"prod1"}},
     category_ids : {{}}, allow_stacking : BOOLEAN]

\* The codes validated: those entered, in more spellings
CodesValidated == CodesEntered \cup {"Test10", " test10 ", "big", "nope"}

\* a call of DiscountService.validate_coupon
ValidateCoupon(code, order_total, customer_id) ==
    /\ result = NoResult
    /\ result' = validate_coupon(code, order_total, customer_id)
                 @@ [op |-> "validate_coupon", code |-> code,
                     order_total |-> order_total, customer_id |-> customer_id]
    /\ UNCHANGED <<coupons, promotions, usages, now, inflight>>

\* a POST to api_validate_coupon
ApiValidateCoupon(code, subtotal) ==
    /\ result = NoResult
    /\ result' = [op |-> "api_validate_coupon", code |-> code,
                  subtotal |-> subtotal,
                  json |-> api_validate_coupon(code, subtotal)]
    /\ UNCHANGED <<coupons, promotions, usages, now, inflight>>

OrchNext ==
    \/ \E a \in OrderArgs, active_promotions \in get_active_promotions :
          CalculateOrderDiscounts(a, active_promotions)
    \/ \E code \in CodesValidated \ {""}, order_total \in Totals,
          customer_id \in {NoCustomer, "X"} :
          ValidateCoupon(code, order_total, customer_id)
    \/ \E code \in CodesValidated, subtotal \in Totals :
          ApiValidateCoupon(code, subtotal)

OrchSpec == OrchInit /\ [][OrchNext]_vars

(***************************************************************************)
(* The POS specification: the endpoints and service calls a POS terminal   *)
(* uses.  Orders are computed (api_calculate_discounts, api_validate_coupon *)
(* and the service) while usages are recorded (api_apply_discount).        *)
(***************************************************************************)

\* json.loads(request.body) raises: the body is not JSON
NotJson == [json |-> FALSE]

\* a JSON body with the keys total and coupon_code; is_decimal says whether
\* Decimal(str(data.get('total', '0'))) parses the value (it does not parse
\* "abc"), and total is the Decimal it gives when it does
Bodies ==
    {NotJson}
    \cup {b \in [json : {TRUE}, is_decimal : BOOLEAN, total : Totals,
                 coupon_code : {"", "TEST10"}] : ~b.is_decimal => b.total = 0}

\* Promotion.objects.filter(is_active=True, is_deleted=False)
\* .order_by('-priority') of api_calculate_discounts: the lists it may return
ViewPromotions ==
    LET rows == {p \in PromoIds : /\ promotions[p] /= NoRow
                                  /\ promotions[p].is_active
                                  /\ ~promotions[p].is_deleted}
    IN  {order \in [1..Cardinality(rows) -> rows] :
            /\ \A i, j \in DOMAIN order : i /= j => order[i] /= order[j]
            /\ \A i, j \in DOMAIN order :
                  i < j => promotions[order[i]].priority >= promotions[order[j]].priority}

\* one entry of the list applied of api_calculate_discounts
ViewApplied(source, id, discount) ==
    [source |-> source, source_id |-> id, discount_amount |-> discount]

\* the loop "for promo in promotions" of api_calculate_discounts
RECURSIVE ViewPromotionLoop(_, _, _)
ViewPromotionLoop(promos, total, acc) ==
    IF promos = <<>> THEN acc
    ELSE LET promo == promotions[Head(promos)]
             discount == Promotion_calculate_discount(promo,
                            IF ~promo.stackable THEN total - acc.total_discount
                            ELSE total)
         IN  IF ~Promotion_is_valid(promo, now)
             THEN ViewPromotionLoop(Tail(promos), total, acc)
             ELSE IF discount > 0
             THEN LET next == [total_discount |-> acc.total_discount + discount,
                               applied |-> Append(acc.applied,
                                   ViewApplied("promotion", Head(promos), discount))]
                  IN  IF ~promo.stackable THEN next
                      ELSE ViewPromotionLoop(Tail(promos), total, next)
             ELSE ViewPromotionLoop(Tail(promos), total, acc)

\* api_calculate_discounts (views.py): the response; an exception the handler
\* does not catch ends in the server's error response (status 500)
api_calculate_discounts(body, view_promotions) ==
    IF ~body.json THEN [status |-> 400, error |-> "Invalid JSON"]
    ELSE IF ~body.is_decimal
    THEN [status |-> 500, error |-> "decimal.InvalidOperation"]
    ELSE LET total == body.total
             found == SelectSeq(CouponsNewestFirst,
                         LAMBDA c : /\ coupons[c] /= NoRow
                                    /\ Fold(coupons[c].code) = Fold(body.coupon_code)
                                    /\ ~coupons[c].is_deleted)
             used == body.coupon_code /= "" /\ found /= <<>>
                        /\ Coupon_can_use(coupons[Head(found)], Head(found),
                                          NoCustomer, total, now, usages).ok
             discount == IF used
                         THEN Coupon_calculate_discount(coupons[Head(found)], total)
                         ELSE 0
             start == [total_discount |-> discount,
                       applied |-> IF used
                                   THEN <<ViewApplied("coupon", Head(found), discount)>>
                                   ELSE <<>>]
             end == ViewPromotionLoop(view_promotions, total, start)
         IN  [status |-> 200, original_total |-> total,
              discounted_total |-> Max(0, total - end.total_discount),
              total_discount |-> end.total_discount,
              applied_discounts |-> end.applied]

\* a POST to api_calculate_discounts
ApiCalculateDiscounts(body, view_promotions) ==
    /\ result = NoResult
    /\ result' = [op |-> "api_calculate_discounts", body |-> body,
                  view_promotions |-> view_promotions,
                  response |-> api_calculate_discounts(body, view_promotions)]
    /\ UNCHANGED <<coupons, promotions, usages, now, inflight>>

\* a call of DiscountService.apply_coupon
ApplyCoupon(code, order_total, customer_id) ==
    /\ result = NoResult
    /\ result' = apply_coupon(code, order_total, customer_id)
                 @@ [op |-> "apply_coupon", code |-> code,
                     order_total |-> order_total, customer_id |-> customer_id]
    /\ UNCHANGED <<coupons, promotions, usages, now, inflight>>

\* The promotion rows of the POS specification, all on the whole order
PosPromotions ==
    << Promo("percentage", 20, 10, FALSE),
       Promo("percentage", 5, 5, TRUE),
       Promo("fixed", Money(5), 20, TRUE) >>

PosInit ==
    /\ \E row \in {Test10, Big, NoRow} :
          coupons = [c \in CouponIds |-> IF c = "c1" THEN row ELSE NoRow]
    /\ \E form \in [PromoIds -> 0..Len(PosPromotions)] :
          /\ \A i, j \in PromoIds : i < j => form[i] >= form[j]
          /\ promotions = [p \in PromoIds |->
                IF form[p] = 0 THEN NoRow ELSE PosPromotions[form[p]]]
    /\ usages = <<>>
    /\ now = 34
    /\ inflight = EmptyBag
    /\ result = NoResult

\* the orders the service is asked to compute
PosArgs ==
    {a \in OrderArgs : /\ a.coupon_code \in {"", "TEST10"}
                       /\ a.customer_id = NoCustomer
                       /\ a.product_ids = {}}

PosNext ==
    \/ \E a \in PosArgs, active_promotions \in get_active_promotions :
          CalculateOrderDiscounts(a, active_promotions)
    \/ \E code \in {"TEST10", "test10", "NOPE"}, order_total \in Totals :
          ValidateCoupon(code, order_total, NoCustomer)
    \/ \E code \in {"TEST10", "test10", "NOPE"}, order_total \in Totals :
          ApplyCoupon(code, order_total, NoCustomer)
    \/ \E code \in {"", "TEST10", "test10"}, subtotal \in Totals :
          ApiValidateCoupon(code, subtotal)
    \/ \E body \in Bodies, view_promotions \in ViewPromotions :
          ApiCalculateDiscounts(body, view_promotions)
    \/ \E c \in CouponIds : api_apply_discount_load(c)
    \/ \E rq \in BagToSet(inflight) : api_apply_discount_increment(rq)
    \/ \E rq \in BagToSet(inflight) : api_apply_discount_create(rq, NoCustomer)

PosSpec == PosInit /\ [][PosNext]_vars

(***************************************************************************)
(* The eligibility specification: one stored coupon or one stored          *)
(* promotion, with every combination of the fields the evaluators read;    *)
(* the clock advances in half days from a Monday, 10:00, and can_use,      *)
(* is_valid and calculate_order_discounts are called at each instant.      *)
(***************************************************************************)
MaxHalfDays == 4

\* a DiscountCondition row attached to a coupon or promotion
DiscountCondition(condition_type, value, is_inclusive) ==
    [condition_type |-> condition_type, value |-> value,
     is_inclusive |-> is_inclusive]

\* the instants of the clock: Monday 10:00, Monday 22:00, Tuesday 10:00, ...
Instants == {10 + 12 * k : k \in 0..MaxHalfDays}

\* The coupon rows: code TEST10, 10 %, usage_per_customer 1
TimeCoupons ==
    {[Test10 EXCEPT !.is_active = a, !.usage_limit = l, !.usage_count = n,
                    !.valid_from = f, !.valid_until = u, !.min_purchase = m,
                    !.conditions = k] :
        a \in BOOLEAN, l \in {None, Some(0), Some(1), Some(2)}, n \in {0, 1},
        f \in {10, 34}, u \in {None, Some(22), Some(46)},
        m \in {0, Money(100)},
        k \in {{}, {DiscountCondition("min_amount", Money(100), TRUE)}}}

\* The promotion rows: 20 % of the order, on some days and hours
TimePromotions ==
    {[Promo("percentage", 20, 10, FALSE) EXCEPT
            !.is_active = a, !.days_of_week = d, !.valid_from = f,
            !.valid_until = u, !.start_time = w[1], !.end_time = w[2],
            !.conditions = k] :
        a \in BOOLEAN, d \in {{}, {0}, {1, 2}}, f \in {10, 34}, u \in {22, 46},
        w \in {<<None, None>>, <<Some(9), Some(17)>>, <<Some(10), None>>},
        k \in {{}, {DiscountCondition("min_amount", Money(100), FALSE)}}}

TimeInit ==
    /\ \/ /\ \E row \in TimeCoupons :
                coupons = [c \in CouponIds |-> IF c = "c1" THEN row ELSE NoRow]
          /\ promotions = [p \in PromoIds |-> NoRow]
          /\ usages = <<[coupon |-> "c1", customer |-> "X"]>>
       \/ /\ coupons = [c \in CouponIds |-> NoRow]
          /\ \E row \in TimePromotions :
                promotions = [p \in PromoIds |-> IF p = 1 THEN row ELSE NoRow]
          /\ usages = <<>>
    /\ now = 10
    /\ inflight = EmptyBag
    /\ result = NoResult

\* timezone.now() half a day later
ElapseHalfDay ==
    /\ result = NoResult
    /\ now + 12 \in Instants
    /\ now' = now + 12
    /\ UNCHANGED <<coupons, promotions, usages, inflight, result>>

\* coupon.can_use(customer, order_total)
CouponCanUse(c, customer, order_total) ==
    /\ result = NoResult
    /\ coupons[c] /= NoRow
    /\ result' = Coupon_can_use(coupons[c], c, customer, order_total, now, usages)
                 @@ [op |-> "Coupon.can_use", id |-> c, customer |-> customer,
                     order_total |-> order_total]
    /\ UNCHANGED <<coupons, promotions, usages, now, inflight>>

\* promo.is_valid
PromotionIsValid(p) ==
    /\ result = NoResult
    /\ promotions[p] /= NoRow
    /\ result' = [op |-> "Promotion.is_valid", id |-> p,
                  is_valid |-> Promotion_is_valid(promotions[p], now)]
    /\ UNCHANGED <<coupons, promotions, usages, now, inflight>>

\* the orders evaluated at each instant
TimeArgs ==
    {a \in OrderArgs : /\ a.coupon_code \in {"", "TEST10"}
                       /\ a.customer_id = NoCustomer
                       /\ a.product_ids = {}
                       /\ ~a.allow_stacking}

TimeNext ==
    \/ ElapseHalfDay
    \/ \E c \in CouponIds, customer \in Customers \cup {NoCustomer},
          order_total \in Totals : CouponCanUse(c, customer, order_total)
    \/ \E p \in PromoIds : PromotionIsValid(p)
    \/ \E a \in TimeArgs, active_promotions \in get_active_promotions :
          CalculateOrderDiscounts(a, active_promotions)

TimeSpec == TimeInit /\ [][TimeNext]_vars

(***************************************************************************)
(* Claims checked under Spec (the usage ledger)                            *)
(***************************************************************************)

UsageRows(c) == Cardinality({i \in 1..Len(usages) : usages[i].coupon = c})

\* C1: every coupon whose usage_limit is set has usage_count <= usage_limit,
\* after any sequence of create, edit and record-usage operations.
C1_UsageCountWithinLimit ==
    \A c \in CouponIds :
        (coupons[c] /= NoRow /\ coupons[c].usage_limit /= None)
            => coupons[c].usage_count <= coupons[c].usage_limit[1]

\* C2: a usage recording that reaches its increment when the stored counter
\* is already at the coupon's usage_limit loses: it leaves usage_count
\* unchanged and ends with a "limit exceeded" outcome, so that at most
\* usage_limit increments succeed.
C2_LosingWriterFails ==
    [][\A rq \in BagToSet(inflight) :
         (/\ api_apply_discount_increment(rq)
          /\ coupons[rq.cid].usage_limit /= None
          /\ coupons[rq.cid].usage_count >= coupons[rq.cid].usage_limit[1])
            => (/\ coupons'[rq.cid].usage_count = coupons[rq.cid].usage_count
                /\ result'.op = "apply"
                /\ result'.outcome = "limit_exceeded")]_vars

\* C3: recording a usage is all-or-nothing: whenever no request is between
\* two steps, the counter of each coupon (0 at creation) equals the number
\* of usage rows appended for it.
C3_CounterMatchesRows ==
    inflight = EmptyBag
        => \A c \in CouponIds :
              coupons[c] /= NoRow => coupons[c].usage_count = UsageRows(c)

\* C4: the stored usage_count of a coupon never decreases, over any
\* interleaving of record-usage, edit, toggle and delete.
C4_UsageCountMonotonic ==
    [][\A c \in CouponIds :
         coupons[c] /= NoRow => coupons'[c].usage_count >= coupons[c].usage_count]_vars

\* C10: once a usage of a coupon with usage_per_customer = 1 has been
\* recorded for the sale of customer X through the usage-recording
\* operation, the coupon is ineligible for X at every order total.
C10_RecordedUsageBlocksCustomer ==
    (/\ result.op = "apply"
     /\ result.outcome = "success"
     /\ result.sale_customer \in Customers
     /\ coupons[result.cid].usage_per_customer = 1)
        => ~Coupon_can_use(coupons[result.cid], result.cid, result.sale_customer,
                           Money(100), now, usages).ok

(***************************************************************************)
(* Claims checked under CalcSpec (the discount calculator)                 *)
(***************************************************************************)

IsCalculation == result.op \in {"Coupon.calculate_discount", "Promotion.calculate_discount"}

\* C5: for every order total T >= 0 and every coupon or promotion with
\* discount_value > 0, calculate_discount(T) is >= 0 and <= T.
C5_DiscountWithinTotal ==
    IsCalculation => (0 <= result.discount /\ result.discount <= result.order_total)

(***************************************************************************)
(* Claims checked under OrchSpec (calculate_order_discounts)               *)
(***************************************************************************)

IsOrderCall == result.op = "calculate_order_discounts"
IsOrderResult == IsOrderCall /\ result.raised = ""

CouponsApplied ==
    {i \in 1..Len(result.applied_discounts) : result.applied_discounts[i].source = "coupon"}

PromotionsApplied ==
    {i \in 1..Len(result.applied_discounts) :
        result.applied_discounts[i].source = "promotion"}

\* the one coupon the entered code finds (CouponFound holds)
CouponFound == IsOrderCall /\ result.args.coupon_code /= ""
                  /\ Cardinality(CouponsByCode(result.args.coupon_code)) = 1
FoundId == CHOOSE c \in CouponsByCode(result.args.coupon_code) : TRUE
FoundCanUse ==
    Coupon_can_use(coupons[FoundId], FoundId, result.args.customer_id,
                   result.args.order_total, now, usages)
FoundDiscount == Coupon_calculate_discount(coupons[FoundId], result.args.order_total)

\* C6: the discounted_total calculate_order_discounts returns is >= 0, for
\* every order total, coupon, set of promotions and value of allow_stacking.
C6_DiscountedTotalNotNegative ==
    IsOrderResult => result.discounted_total >= 0

\* C6 witness: the discounts applied exceed the order total.
C6_Witness ==
    /\ IsOrderResult
    /\ result.total_discount > result.original_total
    /\ result.discounted_total = 0

\* C7: with an eligible coupon that is applied and allow_stacking false, the
\* result holds exactly one applied discount, the coupon, and no promotion.
C7_CouponWinsExclusively ==
    (/\ CouponFound
     /\ ~result.args.allow_stacking
     /\ FoundCanUse.ok
     /\ FoundDiscount > 0)
        => (/\ result.raised = ""
            /\ Len(result.applied_discounts) = 1
            /\ result.applied_discounts[1].source = "coupon"
            /\ result.applied_discounts[1].source_id = FoundId
            /\ PromotionsApplied = {})

\* C7 witness: the coupon is applied alone although a promotion would apply
\* to the order.
C7_Witness ==
    /\ CouponFound /\ ~result.args.allow_stacking /\ IsOrderResult
    /\ CouponsApplied = {1}
    /\ \E p \in DOMAIN result.active_promotions :
          /\ Promotion_is_valid(promotions[result.active_promotions[p]], now)
          /\ promotions[result.active_promotions[p]].scope = "order"
          /\ Promotion_calculate_discount(promotions[result.active_promotions[p]],
                                          result.args.order_total) > 0

\* C8: a code that matches no coupon does not make the call fail: the result
\* holds the error "Invalid coupon code", no coupon, and the promotions the
\* same call without a code applies.
C8_InvalidCodeStillAppliesPromotions ==
    (IsOrderCall /\ result.args.coupon_code /= ""
        /\ CouponsByCode(result.args.coupon_code) = {})
        => (/\ result.raised = ""
            /\ result.errors = <<"Invalid coupon code">>
            /\ CouponsApplied = {}
            /\ result.applied_discounts =
                 calculate_order_discounts([result.args EXCEPT !.coupon_code = ""],
                                           result.active_promotions).applied_discounts)

\* C8 witness: an unknown code, and a promotion applied all the same.
C8_Witness ==
    /\ IsOrderResult /\ result.args.coupon_code = "NOPE"
    /\ result.errors = <<"Invalid coupon code">>
    /\ PromotionsApplied /= {}

\* C9 as claimed: when the code finds a coupon, the result holds that coupon
\* among the applied discounts or the evaluator's reason among the errors.
C9_AppliedOrReason ==
    (CouponFound /\ IsOrderResult)
        => \/ \E i \in CouponsApplied : result.applied_discounts[i].source_id = FoundId
           \/ \E i \in DOMAIN result.errors : result.errors[i] = FoundCanUse.reason

\* C9 as amended: when the code finds a coupon, the result holds the
\* evaluator's reason (and no coupon) if the coupon is ineligible, the coupon
\* (and no error) if it is eligible and its discount is > 0, and neither if
\* it is eligible and its discount is 0.
C9_AppliedOrReasonOrZero ==
    (CouponFound /\ IsOrderResult)
        => IF ~FoundCanUse.ok
           THEN result.errors = <<FoundCanUse.reason>> /\ CouponsApplied = {}
           ELSE IF FoundDiscount > 0
           THEN /\ result.errors = <<>>
                /\ CouponsApplied = {1}
                /\ result.applied_discounts[1].source_id = FoundId
                /\ result.applied_discounts[1].discount_amount = FoundDiscount
           ELSE result.errors = <<>> /\ CouponsApplied = {}

\* C9 witness: an eligible coupon whose discount is 0 leaves neither.
C9_Witness ==
    /\ CouponFound /\ IsOrderResult
    /\ FoundCanUse.ok /\ FoundDiscount = 0
    /\ result.errors = <<>> /\ CouponsApplied = {}

(***************************************************************************)
(* Claims checked under TimeSpec (eligibility over time)                   *)
(***************************************************************************)

IsCanUse == result.op = "Coupon.can_use"

\* the coupon row a can_use result is about (IsCanUse holds)
Used == coupons[result.id]

LimitReached(c) == c.usage_limit /= None /\ c.usage_count >= c.usage_limit[1]

\* C11: a coupon whose usage_limit is set and whose usage_count has reached
\* it is ineligible, whatever its other fields are.
C11_ExhaustedIsIneligible ==
    (IsCanUse /\ LimitReached(Used)) => ~result.ok

\* the remaining checks of can_use pass: minimum purchase and customer limit
PassesOrderChecks ==
    /\ result.order_total >= Used.min_purchase
    /\ \/ result.customer = NoCustomer
       \/ CustomerUses(usages, result.id, result.customer) < Used.usage_per_customer

\* C12: an active, non-exhausted coupon is eligible exactly when
\* valid_from <= now and, if valid_until is set, now <= valid_until.
C12_EligibleExactlyInWindow ==
    (IsCanUse /\ Used.is_active /\ ~LimitReached(Used) /\ PassesOrderChecks)
        => (result.ok <=> /\ Used.valid_from <= now
                          /\ Used.valid_until /= None => now <= Used.valid_until[1])

\* C12 witness: the coupon is found eligible at the instant valid_until, which
\* is later than valid_from.
C12_Witness ==
    /\ IsCanUse /\ result.ok
    /\ Used.valid_until = Some(now)
    /\ Used.valid_from < now

\* the check a reason of can_use belongs to
CheckOf(reason) ==
    CASE reason = "Coupon is inactive" -> "active flag"
      [] reason = "Coupon is scheduled" -> "valid_from"
      [] reason = "Coupon is expired" -> "valid_until"
      [] reason = "Coupon is exhausted" -> "usage limit"
      [] reason = "Minimum purchase required" -> "minimum purchase"
      [] reason = "Usage limit per customer reached" -> "per-customer limit"
      [] OTHER -> "none"

\* the first check that fails in the order active flag, valid_from,
\* valid_until, usage limit, minimum purchase, per-customer limit
FirstFailingCheck ==
    IF ~Used.is_active THEN "active flag"
    ELSE IF now < Used.valid_from THEN "valid_from"
    ELSE IF Used.valid_until /= None /\ now > Used.valid_until[1] THEN "valid_until"
    ELSE IF LimitReached(Used) /\ Used.usage_limit /= Some(0) THEN "usage limit"
    ELSE IF result.order_total < Used.min_purchase THEN "minimum purchase"
    ELSE IF result.customer /= NoCustomer
            /\ CustomerUses(usages, result.id, result.customer)
                   >= Used.usage_per_customer
    THEN "per-customer limit"
    ELSE "none"

\* C13: can_use reports the reason of the first check that fails in the order
\* active flag, valid_from, valid_until, usage limit, minimum purchase,
\* per-customer limit.
C13_ReasonOfFirstFailingCheck ==
    IsCanUse => CheckOf(result.reason) = FirstFailingCheck

Overlays == {"inactive", "exhausted"}

Rank(status) ==
    CASE status = "scheduled" -> 1
      [] status = "active" -> 2
      [] status = "expired" -> 3
      [] OTHER -> 0

\* the status after an advance of the clock is not behind the one before it
Forward(before, after) ==
    IF before \in Overlays \/ after \in Overlays THEN before = after
    ELSE Rank(after) >= Rank(before)

\* inactive first, then exhausted (both at every instant), then scheduled,
\* then expired, then active
InOrder(status, row, StatusAt(_)) ==
    /\ ~row.is_active <=> status = "inactive"
    /\ \A t \in Instants : StatusAt(t) \in Overlays => status = StatusAt(t)
    /\ status \notin Overlays =>
          /\ row.valid_from > now <=> status = "scheduled"
          /\ status \in {"scheduled", "expired", "active"}

StatusesInOrder ==
    /\ \A c \in CouponIds : coupons[c] /= NoRow =>
          LET At(t) == Coupon_status(coupons[c], t)
          IN  InOrder(At(now), coupons[c], At)
    /\ \A p \in PromoIds : promotions[p] /= NoRow =>
          LET At(t) == Promotion_status(promotions[p], t)
          IN  InOrder(At(now), promotions[p], At) /\ At(now) /= "exhausted"

StatusesMoveForward ==
    /\ \A c \in CouponIds : coupons[c] /= NoRow =>
          Forward(Coupon_status(coupons[c], now), Coupon_status(coupons[c], now'))
    /\ \A p \in PromoIds : promotions[p] /= NoRow =>
          Forward(Promotion_status(promotions[p], now),
                  Promotion_status(promotions[p], now'))

\* C15: with its fields fixed, the status of a coupon or promotion moves
\* only forward in time (scheduled, active, expired); inactive and exhausted
\* hold at every instant and come first, in the order inactive, exhausted,
\* scheduled, expired, active.
C15_StatusMovesForward ==
    [](StatusesInOrder) /\ [][coupons' = coupons /\ promotions' = promotions
                                  => StatusesMoveForward]_vars

\* C15 witness: a coupon seen scheduled and then active is now expired.
C15_Witness ==
    /\ coupons["c1"] /= NoRow
    /\ Coupon_status(coupons["c1"], 10) = "scheduled"
    /\ Coupon_status(coupons["c1"], 34) = "active"
    /\ now > 34
    /\ Coupon_status(coupons["c1"], now) = "expired"

PromotionApplied(p) ==
    /\ result.op = "calculate_order_discounts"
    /\ result.raised = ""
    /\ \E i \in DOMAIN result.applied_discounts :
          /\ result.applied_discounts[i].source = "promotion"
          /\ result.applied_discounts[i].source_id = p

\* C17: a promotion whose days_of_week is not empty and lacks today's
\* weekday is not valid and is not applied by calculate_order_discounts;
\* one whose days_of_week is empty is valid as if every day were listed.
C17_WeekdayGate ==
    \A p \in PromoIds : promotions[p] /= NoRow =>
        LET row == promotions[p]
        IN  /\ (row.days_of_week /= {} /\ Weekday(now) \notin row.days_of_week)
                  => /\ ~Promotion_is_valid(row, now)
                     /\ ~PromotionApplied(p)
                     /\ result.op = "Promotion.is_valid" /\ result.id = p
                            => ~result.is_valid
            /\ row.days_of_week = {}
                  => Promotion_is_valid(row, now)
                       = Promotion_is_valid([row EXCEPT !.days_of_week = 0..6], now)

\* C17 witness: on a Tuesday an order is evaluated while a promotion for
\* Mondays only, otherwise current, is stored; it is not applied.
C17_Witness ==
    /\ result.op = "calculate_order_discounts"
    /\ result.args.order_total > 0
    /\ Weekday(now) = 1
    /\ promotions[1] /= NoRow
    /\ promotions[1].days_of_week = {0}
    /\ Promotion_is_valid([promotions[1] EXCEPT !.days_of_week = {}], now)
    /\ result.applied_discounts = <<>>

(***************************************************************************)
(* Further claims checked under OrchSpec                                   *)
(***************************************************************************)

\* C14: calculate_order_discounts is deterministic: every evaluation with the
\* same arguments, time and stored rows returns the totals of this one,
\* whatever order the rows of equal priority come in.
C14_SameArgumentsSameResult ==
    IsOrderCall =>
        \A order \in get_active_promotions :
            LET again == calculate_order_discounts(result.args, order)
            IN  /\ again.raised = result.raised
                /\ again.discounted_total = result.discounted_total
                /\ again.total_discount = result.total_discount

\* the codes that differ from code in letter case only
CaseVariants(code) == {x \in CodesValidated : Upper(x) = Upper(code)}

\* C16: validate_coupon and api_validate_coupon return the same result for
\* every two codes that differ only in letter case.
C16_CaseInsensitive ==
    /\ result.op = "validate_coupon" =>
          \A x \in CaseVariants(result.code) :
              LET other == validate_coupon(x, result.order_total, result.customer_id)
              IN  /\ other.raised = result.raised
                  /\ other.is_valid = result.is_valid
                  /\ other.message = result.message
                  /\ other.coupon = result.coupon
    /\ result.op = "api_validate_coupon" =>
          \A x \in CaseVariants(result.code) :
              api_validate_coupon(x, result.subtotal) = result.json

\* C16 witness: the code test10 finds and validates the coupon TEST10.
C16_Witness ==
    /\ result.op = "validate_coupon"
    /\ result.code = "test10"
    /\ result.is_valid
    /\ coupons[result.coupon].code = "TEST10"

CouponApplied(c) ==
    /\ IsOrderResult
    /\ \E i \in CouponsApplied : result.applied_discounts[i].source_id = c

\* C20: for a coupon or promotion with a minimum purchase set and an order
\* total below it, calculate_discount is 0 and calculate_order_discounts
\* applies no discount of that coupon or promotion.
C20_BelowMinimumNoDiscount ==
    IsOrderCall =>
        /\ \A c \in CouponIds :
              (/\ coupons[c] /= NoRow
               /\ coupons[c].min_purchase > 0
               /\ result.args.order_total < coupons[c].min_purchase)
                 => /\ Coupon_calculate_discount(coupons[c], result.args.order_total) = 0
                    /\ ~CouponApplied(c)
        /\ \A p \in PromoIds :
              (/\ promotions[p] /= NoRow
               /\ promotions[p].min_purchase /= None
               /\ result.args.order_total < promotions[p].min_purchase[1])
                 => /\ Promotion_calculate_discount(promotions[p],
                                                    result.args.order_total) = 0
                    /\ ~PromotionApplied(p)

\* C20 witness: an order of 50.00 is evaluated with the code of a coupon
\* whose minimum purchase is 100.00 and a current promotion whose minimum
\* purchase is 75.00.
C20_Witness ==
    /\ IsOrderResult
    /\ result.args.order_total = Money(50)
    /\ CouponFound /\ coupons[FoundId].min_purchase = Money(100)
    /\ result.errors = <<"Minimum purchase required">>
    /\ \E p \in PromoIds :
          /\ promotions[p] /= NoRow
          /\ promotions[p].min_purchase = Some(Money(75))
          /\ Promotion_is_valid(promotions[p], now)

(***************************************************************************)
(* Further claims checked under CalcSpec                                   *)
(***************************************************************************)

\* the row a calculate_discount result is about (IsCalculation holds)
Calculated ==
    IF result.op = "Coupon.calculate_discount" THEN coupons[result.id]
    ELSE promotions[result.id]

\* its minimum purchase: 0 when a promotion has none
MinimumOf(row) ==
    IF result.op = "Coupon.calculate_discount" THEN row.min_purchase
    ELSE IF row.min_purchase = None THEN 0 ELSE row.min_purchase[1]

\* C18: for a fixed-amount coupon or promotion and an order total T at or
\* above its minimum purchase, calculate_discount(T) = min(discount_value, T).
C18_FixedIsMinOfValueAndTotal ==
    (/\ IsCalculation
     /\ Calculated.discount_type = "fixed"
     /\ result.order_total >= MinimumOf(Calculated))
        => result.discount = Min(Calculated.discount_value, result.order_total)

\* C18 witness: a fixed coupon of 500.00 on an order of 50.00 gives 50.00.
C18_Witness ==
    /\ result.op = "Coupon.calculate_discount"
    /\ Calculated.discount_type = "fixed"
    /\ Calculated.discount_value = Money(500)
    /\ result.order_total = Money(50)
    /\ result.discount = Money(50)

\* C19: for a percentage coupon or promotion and an order total T at or above
\* its minimum purchase, calculate_discount(T) is T * discount_value / 100
\* when max_discount is not set and the smaller of that and max_discount
\* when it is set, for every set value.
C19_PercentageWithCap ==
    (/\ IsCalculation
     /\ Calculated.discount_type = "percentage"
     /\ result.order_total >= MinimumOf(Calculated))
        => result.discount =
             IF Calculated.max_discount = None
             THEN PercentOf(result.order_total, Calculated.discount_value)
             ELSE Min(PercentOf(result.order_total, Calculated.discount_value),
                      Calculated.max_discount[1])

(***************************************************************************)
(* Further claims checked under TimeSpec                                   *)
(***************************************************************************)

\* What a condition evaluates to on an order: no code of the module
\* evaluates conditions, so this is the reading of the specification for
\* the built-in kinds min_amount and day_of_week.
ConditionHolds(condition, order_total, t) ==
    CASE condition.condition_type = "min_amount" -> order_total >= condition.value
      [] condition.condition_type = "day_of_week" -> Weekday(t) = condition.value
      [] OTHER -> TRUE

\* a condition of the row mismatches: false while inclusive, true while not
Mismatches(row, order_total, t) ==
    \E condition \in row.conditions :
        ConditionHolds(condition, order_total, t) /= condition.is_inclusive

\* C22: a coupon or promotion with an attached condition that mismatches the
\* order is ineligible, and calculate_order_discounts applies no discount of
\* it.
C22_ConditionsGate ==
    /\ (IsCanUse /\ Mismatches(Used, result.order_total, now)) => ~result.ok
    /\ result.op = "calculate_order_discounts" =>
          /\ \A c \in CouponIds :
                (coupons[c] /= NoRow
                   /\ Mismatches(coupons[c], result.args.order_total, now))
                     => ~CouponApplied(c)
          /\ \A p \in PromoIds :
                (promotions[p] /= NoRow
                   /\ Mismatches(promotions[p], result.args.order_total, now))
                     => ~PromotionApplied(p)

(***************************************************************************)
(* Claims checked under CrudSpec (coupon administration)                   *)
(***************************************************************************)

\* C23: no two non-deleted coupons have codes that are equal without regard
\* to letter case, after any sequence of coupon create and edit operations.
C23_CodesAreUnique ==
    \A c, d \in CouponIds :
        (c /= d /\ Live(c) /\ Live(d))
            => Fold(coupons[c].code) /= Fold(coupons[d].code)

(***************************************************************************)
(* Claims on the promotion loop, checked under OrchSpec                    *)
(***************************************************************************)

\* the promotion row of applied discount i
AppliedPromotion(i) == promotions[result.applied_discounts[i].source_id]

NonStackableApplied == {i \in PromotionsApplied : ~AppliedPromotion(i).stackable}

\* C25: applied_discounts holds at most one non-stackable promotion, and no
\* discount after it.
C25_StopsAtNonStackable ==
    IsOrderResult =>
        /\ Cardinality(NonStackableApplied) <= 1
        /\ \A i \in NonStackableApplied : i = Len(result.applied_discounts)

\* C25 witness: with stacking allowed, a non-stackable promotion is applied
\* and a stackable one of lower priority, valid for the order, is not.
C25_Witness ==
    /\ IsOrderResult /\ result.args.allow_stacking
    /\ NonStackableApplied /= {}
    /\ \E p \in PromoIds :
          /\ promotions[p] /= NoRow
          /\ promotions[p].stackable
          /\ promotions[p].scope = "order"
          /\ Promotion_is_valid(promotions[p], now)
          /\ ~PromotionApplied(p)
          /\ \A i \in NonStackableApplied :
                promotions[p].priority < AppliedPromotion(i).priority

\* the sum of the discount amounts of the first n applied discounts
RECURSIVE AmountsBefore(_)
AmountsBefore(n) ==
    IF n = 0 THEN 0
    ELSE AmountsBefore(n - 1) + result.applied_discounts[n].discount_amount

\* C26: the coupon's amount is computed from order_total, the amount of each
\* applied promotion from order_total minus the amounts applied before it,
\* and original_total of each applied discount is that base.
C26_PromotionsChainOnRunningTotal ==
    IsOrderResult =>
        \A i \in DOMAIN result.applied_discounts :
            LET applied == result.applied_discounts[i]
                base == result.args.order_total - AmountsBefore(i - 1)
            IN  IF applied.source = "coupon"
                THEN /\ i = 1
                     /\ applied.original_total = result.args.order_total
                     /\ applied.discount_amount =
                          Coupon_calculate_discount(coupons[applied.source_id],
                                                    result.args.order_total)
                ELSE /\ applied.original_total = base
                     /\ applied.discount_amount =
                          Promotion_calculate_discount(AppliedPromotion(i), base)

\* C26 witness: a coupon and then a promotion are applied, the promotion on
\* less than the order total.
C26_Witness ==
    /\ IsOrderResult
    /\ Len(result.applied_discounts) >= 2
    /\ result.applied_discounts[1].source = "coupon"
    /\ result.applied_discounts[2].source = "promotion"
    /\ result.applied_discounts[2].original_total < result.args.order_total

\* the place of promotion p in the list the loop went through
PlaceOf(p) == CHOOSE k \in DOMAIN result.active_promotions :
                  result.active_promotions[k] = p

\* C27: the applied promotions are in non-increasing priority, and every
\* active promotion of higher priority than an applied one came before it
\* in the loop.
C27_DescendingPriority ==
    IsOrderResult =>
        /\ \A i, j \in PromotionsApplied :
              i < j => AppliedPromotion(i).priority >= AppliedPromotion(j).priority
        /\ \A i \in PromotionsApplied : \A q \in ActivePromotions :
              promotions[q].priority > AppliedPromotion(i).priority
                 => PlaceOf(q) < PlaceOf(result.applied_discounts[i].source_id)

\* C27 witness: two promotions of different priorities are applied, the one
\* of higher priority first.
C27_Witness ==
    /\ IsOrderResult
    /\ \E i, j \in PromotionsApplied :
          /\ i < j
          /\ AppliedPromotion(i).priority > AppliedPromotion(j).priority

\* C30: total_discount is the sum of the applied amounts, every applied
\* amount is > 0, total_discount <= original_total, and discounted_total =
\* original_total - total_discount.
C30_TotalsAddUp ==
    IsOrderResult =>
        /\ result.total_discount = AmountsBefore(Len(result.applied_discounts))
        /\ \A i \in DOMAIN result.applied_discounts :
              result.applied_discounts[i].discount_amount > 0
        /\ result.total_discount <= result.original_total
        /\ result.discounted_total = result.original_total - result.total_discount

(***************************************************************************)
(* Claims checked under PosSpec (computing an order, recording a usage)    *)
(***************************************************************************)

ComputeOps ==
    {"calculate_order_discounts", "validate_coupon", "apply_coupon",
     "api_validate_coupon", "api_calculate_discounts"}

UsageCounts == [c \in CouponIds |-> IF coupons[c] = NoRow THEN 0 ELSE coupons[c].usage_count]

\* C21: calculate_order_discounts, validate_coupon, apply_coupon,
\* api_validate_coupon and api_calculate_discounts leave every usage_count
\* and the usage records unchanged; a step that changes either is a step of
\* a usage recording.
C21_ComputingWritesNothing ==
    [][/\ (result' /= result /\ result'.op \in ComputeOps)
            => (UsageCounts' = UsageCounts /\ usages' = usages)
       /\ (UsageCounts' /= UsageCounts \/ usages' /= usages)
            => \E rq \in BagToSet(inflight) :
                  /\ rq.op = "apply"
                  /\ inflight' /= inflight]_vars

\* C21 witness: calculate_order_discounts has applied the coupon TEST10 and
\* the coupon is still unused, with no usage record.
C21_Witness ==
    /\ IsOrderResult
    /\ CouponsApplied /= {}
    /\ coupons["c1"].usage_count = 0
    /\ usages = <<>>

IsApiCalculate == result.op = "api_calculate_discounts"

\* C24: a request to api_calculate_discounts whose body is not JSON, or whose
\* total is not a number, is answered with HTTP 400 and an error.
C24_MalformedIs400 ==
    (IsApiCalculate /\ (~result.body.json \/ ~result.body.is_decimal))
        => result.response.status = 400

\* C28: when every usage recording of a coupon without usage_limit has
\* completed, its usage_count (0 at first) is the number N of recordings,
\* and N usage records exist for it.
C28_NoLostUpdate ==
    \A c \in CouponIds :
        (/\ Live(c)
         /\ coupons[c].usage_limit = None
         /\ \A rq \in BagToSet(inflight) : rq.cid /= c)
            => \E N \in 0..Len(usages) :
                  /\ UsageRows(c) = N
                  /\ coupons[c].usage_count = 0 + N

\* C29: for the same total, coupon code and tables, api_calculate_discounts
\* returns the totals calculate_order_discounts returns with
\* allow_stacking = true (for one of the orders the promotions may come in).
C29_EndpointAgreesWithService ==
    (IsApiCalculate /\ result.response.status = 200)
        => \E active_promotions \in get_active_promotions :
              LET service == calculate_order_discounts(
                      [order_total |-> result.body.total,
                       coupon_code |-> result.body.coupon_code,
                       customer_id |-> NoCustomer, product_ids |-> {},
                       category_ids |-> {}, allow_stacking |-> TRUE],
                      active_promotions)
              IN  /\ service.raised = ""
                  /\ service.total_discount = result.response.total_discount
                  /\ service.discounted_total = result.response.discounted_total

====
